---- MODULE Spec2Model ----
(***************************************************************************)
(* Model of the ZOF (zero of functions) solver: the six root-finding       *)
(* methods of ZOF_CLI.py, their re-implementation inside app.py's          *)
(* run_method, and the two front ends that call them.                      *)
(*                                                                         *)
(* Numbers.  The program computes with Python floats (IEEE binary64).  A   *)
(* float is modelled as a pair <<m, e>> standing for m * 2^e, kept in     *)
(* canonical form (m odd, or <<0, 0>> for zero).  Every arithmetic        *)
(* operation computes the exact result and rounds it to nearest, ties to   *)
(* even, on a significand of Precision bits, with gradual underflow at the *)
(* quantum 2^Emin.  binary64 is the instance Precision = 53,               *)
(* Emin = -1074; the model checks a narrower format.  The exponent has no  *)
(* upper limit in the model (no inf, no nan).  Comparisons are exact.      *)
(***************************************************************************)
EXTENDS Integers, Sequences, FiniteSets, TLC

\* ------------------------------------------------------------------------
\* Bounds of the model
\* ------------------------------------------------------------------------
Precision == 5
MinExpDepth == 8
MaxIter == 4
LongRun == 24

Emin == 0 - MinExpDepth

\* ------------------------------------------------------------------------
\* Float arithmetic
\* ------------------------------------------------------------------------
None == <<>>

AbsI(n) == IF n < 0 THEN 0 - n ELSE n

RECURSIVE BitLen(_)
BitLen(n) == IF n = 0 THEN 0 ELSE 1 + BitLen(n \div 2)

RECURSIVE Canon(_, _)
Canon(m, e) ==
    IF m = 0 THEN <<0, 0>>
    ELSE IF m % 2 = 0 THEN Canon(m \div 2, e + 1)
    ELSE <<m, e>>

Zero == <<0, 0>>
One == <<1, 0>>
Two == <<1, 1>>
Three == <<3, 0>>
Half == <<1, -1>>

Sgn(x) == IF x[1] > 0 THEN 1 ELSE IF x[1] < 0 THEN -1 ELSE 0

\* exponent of the leading bit of a non-zero float
Top(x) == x[2] + BitLen(AbsI(x[1])) - 1

\* n/d * 2^k, n >= 0, d > 0, rounded to the format
RECURSIVE RoundPos(_, _, _)
RoundPos(n, d, k) ==
    IF n >= d * 2^Precision \/ k < Emin THEN RoundPos(n, 2 * d, k + 1)
    ELSE IF n < d * 2^(Precision - 1) /\ k > Emin THEN RoundPos(2 * n, d, k - 1)
    ELSE LET q == n \div d
             r == n % d
             up == 2 * r > d \/ (2 * r = d /\ q % 2 = 1)
         IN  Canon(IF up THEN q + 1 ELSE q, k)

FNeg(x) == <<0 - x[1], x[2]>>

FAbs(x) == <<AbsI(x[1]), x[2]>>

Round(n, d, k) ==
    IF n = 0 THEN Zero
    ELSE IF n < 0 THEN FNeg(RoundPos(0 - n, d, k))
    ELSE RoundPos(n, d, k)

FMul(x, y) == Round(x[1] * y[1], 1, x[2] + y[2])

\* y # Zero
FDiv(x, y) ==
    Round(IF y[1] < 0 THEN 0 - x[1] ELSE x[1], AbsI(y[1]), x[2] - y[2])

FAdd(x, y) ==
    IF x = Zero THEN y
    ELSE IF y = Zero THEN x
    ELSE IF Top(x) - Top(y) > Precision + 2 THEN x
    ELSE IF Top(y) - Top(x) > Precision + 2 THEN y
    ELSE LET e == IF x[2] < y[2] THEN x[2] ELSE y[2]
         IN  Round(x[1] * 2^(x[2] - e) + y[1] * 2^(y[2] - e), 1, e)

FSub(x, y) == FAdd(x, FNeg(y))

\* exact comparison x < y
Lt(x, y) ==
    IF Sgn(x) # Sgn(y) THEN Sgn(x) < Sgn(y)
    ELSE IF Sgn(x) = 0 THEN FALSE
    ELSE IF Top(x) # Top(y) THEN (Sgn(x) > 0) = (Top(x) < Top(y))
    ELSE LET e == IF x[2] < y[2] THEN x[2] ELSE y[2]
         IN  x[1] * 2^(x[2] - e) < y[1] * 2^(y[2] - e)

Gt(x, y) == Lt(y, x)

Ge(x, y) == ~Lt(x, y)

Le(x, y) == ~Lt(y, x)


\* ------------------------------------------------------------------------
\* The compiled user function and its derivative
\* ------------------------------------------------------------------------
\* 1e10 = 5^10 * 2^10, the fixed-point divergence threshold
DivergenceLimit == <<9765625, 10>>

BadExpr == "x +* 2"

GoodExprs == {"x", "x**2 - 2", "x**2 + 1", "3*x", "x/2 + 1", "1/x", "1"}

\* parse_function: TRUE when sympify accepts the string
Parses(expr_str) == expr_str \in GoodExprs

\* the lambdified function; None stands for a raised ZeroDivisionError
F(expr, x) ==
    CASE expr = "x" -> x
      [] expr = "x**2 - 2" -> FSub(FMul(x, x), Two)
      [] expr = "x**2 + 1" -> FAdd(FMul(x, x), One)
      [] expr = "3*x" -> FMul(Three, x)
      [] expr = "x/2 + 1" -> FAdd(FDiv(x, Two), One)
      [] expr = "1/x" -> IF x = Zero THEN None ELSE FDiv(One, x)
      [] expr = "1" -> One

\* the lambdified symbolic derivative
DF(expr, x) ==
    CASE expr = "x" -> One
      [] expr = "x**2 - 2" -> FMul(Two, x)
      [] expr = "x**2 + 1" -> FMul(Two, x)
      [] expr = "3*x" -> Three
      [] expr = "x/2 + 1" -> Half
      [] expr = "1/x" -> IF x = Zero THEN None ELSE FDiv(FNeg(One), FMul(x, x))
      [] expr = "1" -> Zero

ZeroDivMsg == "float division by zero"
ValueErrMsg == "could not convert string to float"
UnboundMsg == "local variable 'c' referenced before assignment"
IndexErrMsg == "list index out of range"

\* ------------------------------------------------------------------------
\* Inputs of a run
\* ------------------------------------------------------------------------
\* None as a tolerance stands for a string float() rejects
Tols == {<<1, -6>>, Half, Zero, <<1, 35>>, None}

MaxIters == -1 .. MaxIter

\* fixed-point runs may also be given a cap long enough for 3*x to run away
\* from x0 = 1
MaxItersOf(m) == IF m = 5 THEN MaxIters \cup {LongRun} ELSE MaxIters

BracketPts == {<<-5, -1>>, <<-5, -2>>, <<-1, 0>>, <<-1, -3>>, Zero, <<1, -2>>, One, Two}

GuessPts == {<<-1, 0>>, Zero, One, Two}

BigPts == {<<1, 32>>, <<1, 33>>}

Deltas == {Zero, <<1, -2>>}

Exprs == GoodExprs \cup {BadExpr}

Request(m, fn, t, n, p, q) ==
    [method |-> m, function |-> fn, tol |-> t, max_iter |-> n, p1 |-> p, p2 |-> q]

Methods == 1 .. 6

\* the first and the second method parameter asked for by a method
FirstParams(m) ==
    CASE m \in {1, 2} -> BracketPts
      [] m = 5 -> GuessPts \cup BigPts
      [] OTHER -> GuessPts

SecondParams(m) ==
    CASE m \in {1, 2} -> BracketPts
      [] m = 3 -> GuessPts
      [] m = 6 -> Deltas
      [] OTHER -> {Zero}

NoRequest == Request(0, BadExpr, None, 0, Zero, Zero)

VARIABLES cli, web

vars == <<cli, web>>


\* ------------------------------------------------------------------------
\* ZOF_CLI.py: the six solver functions and main
\* ------------------------------------------------------------------------
\* cli.pc: "idle" at the menu prompt, "start" once the inputs of a run are
\* typed (cli.req), "loop" inside a solver's for loop about to run index
\* cli.i, "returned" when the solver call has returned to main, "printed"
\* when main has printed the outcome of the run.
\* cli.iterations is the solver's local list, cli.result / cli.history /
\* cli.message what the call returned, cli.raised whether an exception
\* reached main's except clause, cli.printed what main has printed.
CliIdle ==
    [pc |-> "idle", req |-> NoRequest, i |-> 0, a |-> Zero, b |-> Zero,
     c |-> None, x0 |-> Zero, x1 |-> Zero, x_curr |-> Zero, iterations |-> <<>>,
     result |-> None, history |-> <<>>, message |-> "", raised |-> FALSE,
     printed |-> <<>>]

\* return <value>, iterations
CliReturn(s, root, its) ==
    [s EXCEPT !.pc = "returned", !.result = root, !.history = its,
              !.iterations = its, !.message = ""]

\* return None, "<message>"
CliFail(s, msg) ==
    [s EXCEPT !.pc = "returned", !.result = None, !.history = <<>>,
              !.message = msg]

\* variant of CliExcept: no except clause around the solver call, the
\* exception ends the program
CliExceptUncaught(s, msg) ==
    [s EXCEPT !.pc = "crashed", !.message = msg, !.raised = TRUE]

\* an exception leaves the solver call and reaches main's except clause,
\* which prints it
CliExcept(s, msg) ==
    [s EXCEPT !.pc = "printed", !.result = None, !.history = <<>>,
              !.message = msg, !.raised = TRUE,
              !.printed = Append(s.printed, "An error occurred")]

\* for i in range(1, max_iter + 1): next index, or leave the loop
CliLoop(s, r, after) ==
    IF s.i = r.max_iter THEN after ELSE [s EXCEPT !.i = s.i + 1]

\* variant of bisection_exit: return a, iterations
bisection_exit_endpoint(s) == CliReturn(s, s.a, s.iterations)

bisection_exit(s) == CliReturn(s, FDiv(FAdd(s.a, s.b), Two), s.iterations)

\* variant of bisection: convergence test with the residual comparison
\* reversed (abs(fc) > tol or error < tol)
bisection_reversed_test(s, r) ==
    LET c == FDiv(FAdd(s.a, s.b), Two)
        fc == F(r.function, c)
        error == FAbs(FSub(s.b, s.a))
        its == Append(s.iterations,
                      [iter |-> s.i, a |-> s.a, b |-> s.b, mid |-> c,
                       f_mid |-> fc, error |-> error])
        fa == F(r.function, s.a)
    IN  IF fc = None THEN CliExcept(s, ZeroDivMsg)
        ELSE IF Gt(FAbs(fc), r.tol) \/ Lt(error, r.tol) THEN CliReturn(s, c, its)
        ELSE IF fa = None THEN CliExcept(s, ZeroDivMsg)
        ELSE LET s1 == IF Lt(FMul(fa, fc), Zero)
                       THEN [s EXCEPT !.b = c, !.iterations = its]
                       ELSE [s EXCEPT !.a = c, !.iterations = its]
             IN  CliLoop(s1, r, bisection_exit(s1))

bisection(s, r) ==
    LET c == FDiv(FAdd(s.a, s.b), Two)
        fc == F(r.function, c)
        error == FAbs(FSub(s.b, s.a))
        its == Append(s.iterations,
                      [iter |-> s.i, a |-> s.a, b |-> s.b, mid |-> c,
                       f_mid |-> fc, error |-> error])
        fa == F(r.function, s.a)
    IN  IF fc = None THEN CliExcept(s, ZeroDivMsg)
        ELSE IF Lt(FAbs(fc), r.tol) \/ Lt(error, r.tol) THEN CliReturn(s, c, its)
        ELSE IF fa = None THEN CliExcept(s, ZeroDivMsg)
        ELSE LET s1 == IF Lt(FMul(fa, fc), Zero)
                       THEN [s EXCEPT !.b = c, !.iterations = its]
                       ELSE [s EXCEPT !.a = c, !.iterations = its]
             IN  CliLoop(s1, r, bisection_exit(s1))

regula_falsi_exit(s) ==
    IF s.c = None THEN CliExcept(s, UnboundMsg)
    ELSE CliReturn(s, s.c, s.iterations)

regula_falsi(s, r) ==
    LET fa == F(r.function, s.a)
        fb == F(r.function, s.b)
        c == FDiv(FSub(FMul(s.a, fb), FMul(s.b, fa)), FSub(fb, fa))
        fc == F(r.function, c)
        error == FAbs(fc)
        its == Append(s.iterations,
                      [iter |-> s.i, a |-> s.a, b |-> s.b, c |-> c,
                       f_c |-> fc, error |-> error])
    IN  IF fa = None \/ fb = None THEN CliExcept(s, ZeroDivMsg)
        ELSE IF FSub(fb, fa) = Zero THEN CliFail(s, "Division by zero encountered.")
        ELSE IF fc = None THEN CliExcept(s, ZeroDivMsg)
        ELSE IF Lt(FAbs(fc), r.tol) THEN CliReturn([s EXCEPT !.c = c], c, its)
        ELSE LET s1 == IF Lt(FMul(fa, fc), Zero)
                       THEN [s EXCEPT !.b = c, !.c = c, !.iterations = its]
                       ELSE [s EXCEPT !.a = c, !.c = c, !.iterations = its]
             IN  CliLoop(s1, r, regula_falsi_exit(s1))

secant_exit(s) == CliReturn(s, s.x1, s.iterations)

\* variant of secant: a singular pair returns x1 as the root
secant_singular_returns(s, r) ==
    LET fx0 == F(r.function, s.x0)
        fx1 == F(r.function, s.x1)
        x2 == FSub(s.x1, FDiv(FMul(fx1, FSub(s.x1, s.x0)), FSub(fx1, fx0)))
        error == FAbs(FSub(x2, s.x1))
        its == Append(s.iterations,
                      [iter |-> s.i, x_prev |-> s.x0, x_curr |-> s.x1,
                       x_new |-> x2, error |-> error])
    IN  IF fx0 = None \/ fx1 = None THEN CliExcept(s, ZeroDivMsg)
        ELSE IF FSub(fx1, fx0) = Zero THEN CliReturn(s, s.x1, s.iterations)
        ELSE IF Lt(error, r.tol) THEN CliReturn(s, x2, its)
        ELSE LET s1 == [s EXCEPT !.x0 = s.x1, !.x1 = x2, !.iterations = its]
             IN  CliLoop(s1, r, secant_exit(s1))

secant(s, r) ==
    LET fx0 == F(r.function, s.x0)
        fx1 == F(r.function, s.x1)
        x2 == FSub(s.x1, FDiv(FMul(fx1, FSub(s.x1, s.x0)), FSub(fx1, fx0)))
        error == FAbs(FSub(x2, s.x1))
        its == Append(s.iterations,
                      [iter |-> s.i, x_prev |-> s.x0, x_curr |-> s.x1,
                       x_new |-> x2, error |-> error])
    IN  IF fx0 = None \/ fx1 = None THEN CliExcept(s, ZeroDivMsg)
        ELSE IF FSub(fx1, fx0) = Zero
             THEN CliFail(s, "Division by zero: f(x1) - f(x0) is zero.")
        ELSE IF Lt(error, r.tol) THEN CliReturn(s, x2, its)
        ELSE LET s1 == [s EXCEPT !.x0 = s.x1, !.x1 = x2, !.iterations = its]
             IN  CliLoop(s1, r, secant_exit(s1))

newton_raphson_exit(s) == CliReturn(s, s.x_curr, s.iterations)

newton_raphson(s, r) ==
    LET fx == F(r.function, s.x_curr)
        dfx == DF(r.function, s.x_curr)
        x_next == FSub(s.x_curr, FDiv(fx, dfx))
        error == FAbs(FSub(x_next, s.x_curr))
        its == Append(s.iterations,
                      [iter |-> s.i, x_curr |-> s.x_curr, f_x |-> fx,
                       df_x |-> dfx, x_next |-> x_next, error |-> error])
    IN  IF fx = None \/ dfx = None THEN CliExcept(s, ZeroDivMsg)
        ELSE IF dfx = Zero THEN CliFail(s, "Derivative is zero. Method fails.")
        ELSE IF Lt(error, r.tol) THEN CliReturn(s, x_next, its)
        ELSE LET s1 == [s EXCEPT !.x_curr = x_next, !.iterations = its]
             IN  CliLoop(s1, r, newton_raphson_exit(s1))

fixed_point_exit(s) == CliReturn(s, s.x_curr, s.iterations)

\* variant of fixed_point: no divergence test
fixed_point_unguarded(s, r) ==
    LET x_next == F(r.function, s.x_curr)
        error == FAbs(FSub(x_next, s.x_curr))
        its == Append(s.iterations,
                      [iter |-> s.i, x_curr |-> s.x_curr, g_x |-> x_next,
                       error |-> error])
    IN  IF x_next = None THEN CliExcept(s, ZeroDivMsg)
        ELSE IF Lt(error, r.tol) THEN CliReturn(s, x_next, its)
        ELSE LET s1 == [s EXCEPT !.x_curr = x_next, !.iterations = its]
             IN  CliLoop(s1, r, fixed_point_exit(s1))

fixed_point(s, r) ==
    LET x_next == F(r.function, s.x_curr)
        error == FAbs(FSub(x_next, s.x_curr))
        its == Append(s.iterations,
                      [iter |-> s.i, x_curr |-> s.x_curr, g_x |-> x_next,
                       error |-> error])
    IN  IF x_next = None THEN CliExcept(s, ZeroDivMsg)
        ELSE IF Lt(error, r.tol) THEN CliReturn(s, x_next, its)
        ELSE LET s1 == [s EXCEPT !.x_curr = x_next, !.iterations = its]
             IN  IF Gt(error, DivergenceLimit) THEN CliFail(s1, "Method diverged.")
                 ELSE CliLoop(s1, r, fixed_point_exit(s1))

modified_secant_exit(s) == CliReturn(s, s.x_curr, s.iterations)

modified_secant(s, r) ==
    LET delta == r.p2
        fx == F(r.function, s.x_curr)
        fx_delta == F(r.function, FAdd(s.x_curr, delta))
        x_next == FSub(s.x_curr, FDiv(FMul(delta, fx), FSub(fx_delta, fx)))
        error == FAbs(FSub(x_next, s.x_curr))
        its == Append(s.iterations,
                      [iter |-> s.i, x_curr |-> s.x_curr, x_next |-> x_next,
                       error |-> error])
    IN  IF fx = None \/ fx_delta = None THEN CliExcept(s, ZeroDivMsg)
        ELSE IF FSub(fx_delta, fx) = Zero
             THEN CliFail(s, "Division by zero in Modified Secant.")
        ELSE IF Lt(error, r.tol) THEN CliReturn(s, x_next, its)
        ELSE LET s1 == [s EXCEPT !.x_curr = x_next, !.iterations = its]
             IN  CliLoop(s1, r, modified_secant_exit(s1))

\* variant of CliBracketFails: f(a) * f(b) > 0
CliBracketFailsStrict(r) ==
    Gt(FMul(F(r.function, r.p1), F(r.function, r.p2)), Zero)

\* the sign test that opens bisection and regula_falsi
CliBracketFails(r) ==
    Ge(FMul(F(r.function, r.p1), F(r.function, r.p2)), Zero)

\* entering a solver: the code before the for loop, then the first index of
\* range(1, max_iter + 1) or, when the range is empty, the code after it
CliEnter(s, r, exit) ==
    IF r.max_iter >= 1 THEN [s EXCEPT !.pc = "loop", !.i = 1] ELSE exit

CliCall(s, r) ==
    LET ab == [s EXCEPT !.a = r.p1, !.b = r.p2]
        xx == [s EXCEPT !.x0 = r.p1, !.x1 = r.p2]
        xc == [s EXCEPT !.x0 = r.p1, !.x_curr = r.p1]
    IN  CASE r.method = 1 ->
               IF F(r.function, r.p1) = None \/ F(r.function, r.p2) = None
               THEN CliExcept(s, ZeroDivMsg)
               ELSE IF CliBracketFails(r)
               THEN CliFail(s, "Bisection fails: f(a) and f(b) must have opposite signs.")
               ELSE CliEnter(ab, r, bisection_exit(ab))
          [] r.method = 2 ->
               IF F(r.function, r.p1) = None \/ F(r.function, r.p2) = None
               THEN CliExcept(s, ZeroDivMsg)
               ELSE IF CliBracketFails(r)
               THEN CliFail(s, "Regula Falsi fails: f(a) and f(b) must have opposite signs.")
               ELSE CliEnter(ab, r, regula_falsi_exit(ab))
          [] r.method = 3 -> CliEnter(xx, r, secant_exit(xx))
          [] r.method = 4 -> CliEnter(xc, r, newton_raphson_exit(xc))
          [] r.method = 5 -> CliEnter(xc, r, fixed_point_exit(xc))
          [] r.method = 6 -> CliEnter(xc, r, modified_secant_exit(xc))

\* main, from the function prompt to the solver call (lines 212-262)
CliBegin ==
    /\ cli.pc = "start"
    /\ cli' = IF ~Parses(cli.req.function)
              THEN [cli EXCEPT !.pc = "printed",
                               !.message = "Error parsing function",
                               !.printed = <<"Error parsing function">>]
              ELSE IF cli.req.tol = None THEN CliExcept(cli, ValueErrMsg)
              ELSE CliCall(cli, cli.req)
    /\ UNCHANGED web

CliBisection ==
    /\ cli.pc = "loop"
    /\ cli.req.method = 1
    /\ cli' = bisection(cli, cli.req)
    /\ UNCHANGED web

CliRegulaFalsi ==
    /\ cli.pc = "loop"
    /\ cli.req.method = 2
    /\ cli' = regula_falsi(cli, cli.req)
    /\ UNCHANGED web

CliSecant ==
    /\ cli.pc = "loop"
    /\ cli.req.method = 3
    /\ cli' = secant(cli, cli.req)
    /\ UNCHANGED web

CliNewtonRaphson ==
    /\ cli.pc = "loop"
    /\ cli.req.method = 4
    /\ cli' = newton_raphson(cli, cli.req)
    /\ UNCHANGED web

CliFixedPoint ==
    /\ cli.pc = "loop"
    /\ cli.req.method = 5
    /\ cli' = fixed_point(cli, cli.req)
    /\ UNCHANGED web

CliModifiedSecant ==
    /\ cli.pc = "loop"
    /\ cli.req.method = 6
    /\ cli' = modified_secant(cli, cli.req)
    /\ UNCHANGED web

\* main, the output section (lines 232, 264-283)
CliOutput ==
    /\ cli.pc = "returned"
    /\ cli' = IF cli.result = None
              THEN [cli EXCEPT !.pc = "printed", !.printed = <<"Error">>]
              ELSE IF cli.history = <<>>
              THEN [cli EXCEPT !.pc = "printed", !.message = IndexErrMsg,
                               !.raised = TRUE,
                               !.printed = <<"Root found", "Iterations",
                                             "An error occurred">>]
              ELSE [cli EXCEPT !.pc = "printed",
                               !.printed = <<"Root found", "Iterations",
                                             "Final Error", "Iteration Table">>]
    /\ UNCHANGED web

\* main: while True, back to the menu for the next run
CliMenu ==
    /\ cli.pc = "printed"
    /\ cli' = CliIdle
    /\ UNCHANGED web


\* ------------------------------------------------------------------------
\* app.py: run_method and the index route
\* ------------------------------------------------------------------------
\* web.history is run_method's local list.  Its rows hold the iteration
\* index and strings formatted from the working values.  A row of the model
\* holds the index and, in place of the strings of its root (or g_x) and
\* error columns, the floats handed to the format specs; the other columns
\* are left out.  web.root / web.trace / web.iters /
\* web.message are the entries of the returned dict.  web.pc is "idle"
\* between requests, "start" when a form is posted (web.req), "loop" inside
\* a for loop, "returned" when run_method has returned its dict.
WebIdle ==
    [pc |-> "idle", req |-> NoRequest, i |-> 0, a |-> Zero, b |-> Zero,
     c |-> None, x0 |-> Zero, x1 |-> Zero, x_curr |-> Zero,
     history |-> <<>>, root |-> None, trace |-> <<>>, iters |-> 0,
     message |-> ""]

\* return {"root": ..., "history": history, "iters": ...}
WebReturn(s, root, hist, n) ==
    [s EXCEPT !.pc = "returned", !.root = root, !.trace = hist,
              !.history = hist, !.iters = n, !.message = ""]

\* return {"error": "<message>"}
WebError(s, msg) ==
    [s EXCEPT !.pc = "returned", !.root = None, !.trace = <<>>,
              !.iters = 0, !.message = msg]

\* except Exception as e: return {"error": str(e)}
WebExcept(s, msg) == WebError(s, msg)

WebLoop(s, r, after) ==
    IF s.i = r.max_iter THEN after ELSE [s EXCEPT !.i = s.i + 1]

WebRow(s, estimate, error) ==
    Append(s.history, [iter |-> s.i, estimate |-> estimate, error |-> error])

run_bisection_exit(s, r) ==
    WebReturn(s, FDiv(FAdd(s.a, s.b), Two), s.history, r.max_iter)

run_bisection(s, r) ==
    LET c == FDiv(FAdd(s.a, s.b), Two)
        fc == F(r.function, c)
        error == FAbs(FSub(s.b, s.a))
        fa == F(r.function, s.a)
    IN  IF fc = None THEN WebExcept(s, ZeroDivMsg)
        ELSE IF Lt(FAbs(fc), r.tol) \/ Lt(error, r.tol)
             THEN WebReturn(s, c, WebRow(s, c, error), s.i)
        ELSE IF fa = None THEN WebExcept(s, ZeroDivMsg)
        ELSE LET s1 == IF Lt(FMul(fa, fc), Zero)
                       THEN [s EXCEPT !.b = c, !.history = WebRow(s, c, error)]
                       ELSE [s EXCEPT !.a = c, !.history = WebRow(s, c, error)]
             IN  WebLoop(s1, r, run_bisection_exit(s1, r))

run_regula_falsi_exit(s, r) ==
    IF s.c = None THEN WebExcept(s, UnboundMsg)
    ELSE WebReturn(s, s.c, s.history, r.max_iter)

run_regula_falsi(s, r) ==
    LET fa == F(r.function, s.a)
        fb == F(r.function, s.b)
        c == FDiv(FSub(FMul(s.a, fb), FMul(s.b, fa)), FSub(fb, fa))
        fc == F(r.function, c)
        error == FAbs(fc)
    IN  IF fa = None \/ fb = None THEN WebExcept(s, ZeroDivMsg)
        ELSE IF FSub(fb, fa) = Zero THEN WebError(s, "Division by zero")
        ELSE IF fc = None THEN WebExcept(s, ZeroDivMsg)
        ELSE IF Lt(FAbs(fc), r.tol)
             THEN WebReturn([s EXCEPT !.c = c], c, WebRow(s, c, error), s.i)
        ELSE LET s1 == IF Lt(FMul(fa, fc), Zero)
                       THEN [s EXCEPT !.b = c, !.c = c,
                                      !.history = WebRow(s, c, error)]
                       ELSE [s EXCEPT !.a = c, !.c = c,
                                      !.history = WebRow(s, c, error)]
             IN  WebLoop(s1, r, run_regula_falsi_exit(s1, r))

run_secant_exit(s, r) == WebReturn(s, s.x1, s.history, r.max_iter)

run_secant(s, r) ==
    LET fx0 == F(r.function, s.x0)
        fx1 == F(r.function, s.x1)
        x2 == FSub(s.x1, FDiv(FMul(fx1, FSub(s.x1, s.x0)), FSub(fx1, fx0)))
        error == FAbs(FSub(x2, s.x1))
    IN  IF fx0 = None \/ fx1 = None THEN WebExcept(s, ZeroDivMsg)
        ELSE IF FSub(fx1, fx0) = Zero THEN WebError(s, "Division by zero")
        ELSE IF Lt(error, r.tol)
             THEN WebReturn(s, x2, WebRow(s, x2, error), s.i)
        ELSE LET s1 == [s EXCEPT !.x0 = s.x1, !.x1 = x2,
                                 !.history = WebRow(s, x2, error)]
             IN  WebLoop(s1, r, run_secant_exit(s1, r))

run_newton_exit(s, r) == WebReturn(s, s.x_curr, s.history, r.max_iter)

run_newton(s, r) ==
    LET fx == F(r.function, s.x_curr)
        dfx == DF(r.function, s.x_curr)
        x_next == FSub(s.x_curr, FDiv(fx, dfx))
        error == FAbs(FSub(x_next, s.x_curr))
    IN  IF fx = None \/ dfx = None THEN WebExcept(s, ZeroDivMsg)
        ELSE IF dfx = Zero THEN WebError(s, "Derivative is zero")
        ELSE IF Lt(error, r.tol)
             THEN WebReturn(s, x_next, WebRow(s, x_next, error), s.i)
        ELSE LET s1 == [s EXCEPT !.x_curr = x_next,
                                 !.history = WebRow(s, x_next, error)]
             IN  WebLoop(s1, r, run_newton_exit(s1, r))

run_fixed_point_exit(s, r) == WebReturn(s, s.x_curr, s.history, r.max_iter)

run_fixed_point(s, r) ==
    LET x_next == F(r.function, s.x_curr)
        error == FAbs(FSub(x_next, s.x_curr))
    IN  IF x_next = None THEN WebExcept(s, ZeroDivMsg)
        ELSE IF Lt(error, r.tol)
             THEN WebReturn(s, x_next, WebRow(s, x_next, error), s.i)
        ELSE LET s1 == [s EXCEPT !.x_curr = x_next,
                                 !.history = WebRow(s, x_next, error)]
             IN  IF Gt(error, DivergenceLimit) THEN WebError(s1, "Diverged")
                 ELSE WebLoop(s1, r, run_fixed_point_exit(s1, r))

run_modified_secant_exit(s, r) == WebReturn(s, s.x_curr, s.history, r.max_iter)

run_modified_secant(s, r) ==
    LET delta == r.p2
        fx == F(r.function, s.x_curr)
        fx_delta == F(r.function, FAdd(s.x_curr, delta))
        x_next == FSub(s.x_curr, FDiv(FMul(delta, fx), FSub(fx_delta, fx)))
        error == FAbs(FSub(x_next, s.x_curr))
    IN  IF fx = None \/ fx_delta = None THEN WebExcept(s, ZeroDivMsg)
        ELSE IF FSub(fx_delta, fx) = Zero THEN WebError(s, "Division by zero")
        ELSE IF Lt(error, r.tol)
             THEN WebReturn(s, x_next, WebRow(s, x_next, error), s.i)
        ELSE LET s1 == [s EXCEPT !.x_curr = x_next,
                                 !.history = WebRow(s, x_next, error)]
             IN  WebLoop(s1, r, run_modified_secant_exit(s1, r))

WebBracketFails(r) ==
    Ge(FMul(F(r.function, r.p1), F(r.function, r.p2)), Zero)

WebEnter(s, r, exit) ==
    IF r.max_iter >= 1 THEN [s EXCEPT !.pc = "loop", !.i = 1] ELSE exit

\* run_method up to the first loop index (lines 24-40, 54-56, 71-72, 85-87,
\* 100-101, 113-115)
run_method(s, r) ==
    LET ab == [s EXCEPT !.a = r.p1, !.b = r.p2]
        xx == [s EXCEPT !.x0 = r.p1, !.x1 = r.p2]
        xc == [s EXCEPT !.x0 = r.p1, !.x_curr = r.p1]
    IN  IF r.tol = None THEN WebExcept(s, ValueErrMsg)
        ELSE IF ~Parses(r.function) THEN WebError(s, "Invalid Function String")
        ELSE CASE r.method \in {1, 2} ->
                    IF F(r.function, r.p1) = None \/ F(r.function, r.p2) = None
                    THEN WebExcept(s, ZeroDivMsg)
                    ELSE IF WebBracketFails(r)
                    THEN WebError(s, "f(a) and f(b) must have opposite signs")
                    ELSE IF r.method = 1
                    THEN WebEnter(ab, r, run_bisection_exit(ab, r))
                    ELSE WebEnter(ab, r, run_regula_falsi_exit(ab, r))
               [] r.method = 3 -> WebEnter(xx, r, run_secant_exit(xx, r))
               [] r.method = 4 -> WebEnter(xc, r, run_newton_exit(xc, r))
               [] r.method = 5 -> WebEnter(xc, r, run_fixed_point_exit(xc, r))
               [] r.method = 6 -> WebEnter(xc, r, run_modified_secant_exit(xc, r))

WebBegin ==
    /\ web.pc = "start"
    /\ web' = run_method(web, web.req)
    /\ UNCHANGED cli

WebBisection ==
    /\ web.pc = "loop"
    /\ web.req.method = 1
    /\ web' = run_bisection(web, web.req)
    /\ UNCHANGED cli

WebRegulaFalsi ==
    /\ web.pc = "loop"
    /\ web.req.method = 2
    /\ web' = run_regula_falsi(web, web.req)
    /\ UNCHANGED cli

WebSecant ==
    /\ web.pc = "loop"
    /\ web.req.method = 3
    /\ web' = run_secant(web, web.req)
    /\ UNCHANGED cli

WebNewton ==
    /\ web.pc = "loop"
    /\ web.req.method = 4
    /\ web' = run_newton(web, web.req)
    /\ UNCHANGED cli

WebFixedPoint ==
    /\ web.pc = "loop"
    /\ web.req.method = 5
    /\ web' = run_fixed_point(web, web.req)
    /\ UNCHANGED cli

WebModifiedSecant ==
    /\ web.pc = "loop"
    /\ web.req.method = 6
    /\ web' = run_modified_secant(web, web.req)
    /\ UNCHANGED cli

\* index: the page is rendered from the dict and the request ends
WebRender ==
    /\ web.pc = "returned"
    /\ web' = WebIdle
    /\ UNCHANGED cli

\* ------------------------------------------------------------------------
\* The user: a run is typed into the command-line front end, and the inputs
\* of a run it has printed are posted to the web front end
\* ------------------------------------------------------------------------
Submit ==
    /\ cli.pc = "idle"
    /\ web.pc = "idle"
    /\ \E m \in Methods, fn \in Exprs, t \in Tols :
          \E n \in MaxItersOf(m), p \in FirstParams(m), q \in SecondParams(m) :
             cli' = [CliIdle EXCEPT !.pc = "start",
                                    !.req = Request(m, fn, t, n, p, q)]
    /\ UNCHANGED web

Post ==
    /\ cli.pc = "printed"
    /\ web.pc = "idle"
    /\ web' = [WebIdle EXCEPT !.pc = "start", !.req = cli.req]
    /\ UNCHANGED cli

Init ==
    /\ cli = CliIdle
    /\ web = WebIdle

Next ==
    \/ Submit
    \/ Post
    \/ CliBegin
    \/ CliBisection
    \/ CliRegulaFalsi
    \/ CliSecant
    \/ CliNewtonRaphson
    \/ CliFixedPoint
    \/ CliModifiedSecant
    \/ CliOutput
    \/ CliMenu
    \/ WebBegin
    \/ WebBisection
    \/ WebRegulaFalsi
    \/ WebSecant
    \/ WebNewton
    \/ WebFixedPoint
    \/ WebModifiedSecant
    \/ WebRender

Spec == Init /\ [][Next]_vars


\* ------------------------------------------------------------------------
\* Vocabulary of the properties
\* ------------------------------------------------------------------------
\* exact difference x - y (no rounding)
ExactSub(x, y) ==
    LET e == IF x[2] < y[2] THEN x[2] ELSE y[2]
    IN  Canon(x[1] * 2^(x[2] - e) - y[1] * 2^(y[2] - e), e)

\* exact width |b - a| of the bracket of a trace record
Width(rec) == FAbs(ExactSub(rec.b, rec.a))

MinF(x, y) == IF Lt(y, x) THEN y ELSE x

MaxF(x, y) == IF Lt(x, y) THEN y ELSE x

Mid(x, y) == FDiv(FAdd(x, y), Two)

InOriginalBracket(r, x) ==
    Le(MinF(r.p1, r.p2), x) /\ Le(x, MaxF(r.p1, r.p2))

\* f is defined at x
Defined(fn, x) == F(fn, x) # None

\* exact sign of the real product f(x) * f(y) of two float values
SignProduct(fn, x, y) == Sgn(F(fn, x)) * Sgn(F(fn, y))

\* the expression compiles and the tolerance string is a number
Valid(r) == Parses(r.function) /\ r.tol # None

\* ... and tol > 0, max_iter >= 1
ValidParams(r) == Valid(r) /\ Lt(Zero, r.tol) /\ r.max_iter >= 1

Bracketing(r) == r.method \in {1, 2}

CliRunning == cli.pc \in {"loop", "returned", "printed"}

CliDone == cli.pc \in {"returned", "printed"}

\* the solver call returned a root
CliSuccess == CliDone /\ cli.result # None

\* the solver call returned None and a message
CliFailure == CliDone /\ Valid(cli.req) /\ cli.result = None /\ ~cli.raised

WebDone == web.pc = "returned"

WebSuccess == WebDone /\ web.root # None

CliLast == cli.iterations[Len(cli.iterations)]

WebLast == web.history[Len(web.history)]

\* the estimate a trace record stores
Estimate(r, rec) ==
    CASE r.method = 1 -> rec.mid
      [] r.method = 2 -> rec.c
      [] r.method = 3 -> rec.x_new
      [] r.method = 4 -> rec.x_next
      [] r.method = 5 -> rec.g_x
      [] r.method = 6 -> rec.x_next

\* the convergence test of the method, on a trace record
CliConverged(r, rec) ==
    Lt(rec.error, r.tol) \/ (r.method = 1 /\ Lt(FAbs(rec.f_mid), r.tol))

WebConverged(r, row) ==
    Lt(row.error, r.tol)
    \/ (r.method = 1 /\ Lt(FAbs(F(r.function, row.estimate)), r.tol))

\* the loop ran max_iter >= 1 iterations, the last one neither converged nor
\* failed
CliExhausted ==
    /\ CliDone
    /\ Valid(cli.req)
    /\ cli.req.max_iter >= 1
    /\ Len(cli.iterations) = cli.req.max_iter
    /\ ~CliConverged(cli.req, CliLast)
    /\ ~(cli.req.method = 5 /\ Gt(CliLast.error, DivergenceLimit))

WebExhausted ==
    /\ WebDone
    /\ Valid(web.req)
    /\ web.req.max_iter >= 1
    /\ Len(web.history) = web.req.max_iter
    /\ ~WebConverged(web.req, WebLast)
    /\ ~(web.req.method = 5 /\ Gt(WebLast.error, DivergenceLimit))

\* ------------------------------------------------------------------------
\* C1
\* ------------------------------------------------------------------------
\* C1 (as stated): whenever a method returns a root with a trace, the error
\* of the last trace record is below tol or the number of iterations used
\* equals max_iter.
C1_LastErrorBelowTolOrExhausted ==
    /\ (CliSuccess /\ cli.history # <<>>) =>
          \/ Lt(cli.history[Len(cli.history)].error, cli.req.tol)
          \/ Len(cli.history) = cli.req.max_iter
    /\ (WebSuccess /\ web.trace # <<>>) =>
          \/ Lt(web.trace[Len(web.trace)].error, web.req.tol)
          \/ web.iters = web.req.max_iter

\* C1 (amended): whenever a method returns a root with a non-empty trace,
\* the error of the last trace record is below tol, or the method is
\* bisection and |f(mid)| of the last record is below tol, or the number of
\* iterations used equals max_iter.
C1_ConvergedOrExhausted ==
    /\ (CliSuccess /\ cli.history # <<>>) =>
          \/ Lt(cli.history[Len(cli.history)].error, cli.req.tol)
          \/ /\ cli.req.method = 1
             /\ Lt(FAbs(cli.history[Len(cli.history)].f_mid), cli.req.tol)
          \/ Len(cli.history) = cli.req.max_iter
    /\ (WebSuccess /\ web.trace # <<>>) =>
          \/ Lt(web.trace[Len(web.trace)].error, web.req.tol)
          \/ /\ web.req.method = 1
             /\ Lt(FAbs(F(web.req.function, web.root)), web.req.tol)
          \/ web.iters = web.req.max_iter

\* bisection stopped early on |f(mid)| < tol with a bracket still wider than tol
C1_Witness ==
    /\ CliSuccess
    /\ ValidParams(cli.req)
    /\ cli.req.method = 1
    /\ cli.history # <<>>
    /\ Len(cli.history) < cli.req.max_iter
    /\ ~Lt(cli.history[Len(cli.history)].error, cli.req.tol)
    /\ Lt(FAbs(cli.history[Len(cli.history)].f_mid), cli.req.tol)

\* ------------------------------------------------------------------------
\* C2
\* ------------------------------------------------------------------------
\* C2 (as stated): a run started with tol <= 0 or max_iter < 1 ends in a
\* failure before any iteration: no trace record is appended and no root is
\* returned.
C2_InvalidParameterRejected ==
    /\ (CliDone /\ Valid(cli.req)
        /\ (Le(cli.req.tol, Zero) \/ cli.req.max_iter < 1)) =>
          cli.result = None /\ cli.iterations = <<>>
    /\ (WebDone /\ Valid(web.req)
        /\ (Le(web.req.tol, Zero) \/ web.req.max_iter < 1)) =>
          web.root = None /\ web.history = <<>>

\* ------------------------------------------------------------------------
\* C3
\* ------------------------------------------------------------------------
\* C3 (as stated): in bisection and regula falsi, started on a bracket with
\* f(a)*f(b) < 0, the recorded bracket width |b - a| never increases from
\* one iteration to the next, and a returned root lies in the original
\* interval [min(a,b), max(a,b)].
C3_WidthAndRootInBracket ==
    /\ (CliRunning /\ Bracketing(cli.req) /\ ValidParams(cli.req)) =>
          /\ \A k \in 1 .. Len(cli.iterations) - 1 :
                Le(Width(cli.iterations[k + 1]), Width(cli.iterations[k]))
          /\ CliSuccess => InOriginalBracket(cli.req, cli.result)
    /\ (WebSuccess /\ Bracketing(web.req) /\ ValidParams(web.req)) =>
          InOriginalBracket(web.req, web.root)

InitialFault(r) ==
    /\ Valid(r)
    /\ Bracketing(r)
    /\ (~Defined(r.function, r.p1) \/ ~Defined(r.function, r.p2))

\* a fault evaluating f at the first midpoint of bisection
FirstMidFault(r) ==
    /\ ValidParams(r)
    /\ r.method = 1
    /\ Defined(r.function, r.p1)
    /\ Defined(r.function, r.p2)
    /\ Lt(FMul(F(r.function, r.p1), F(r.function, r.p2)), Zero)
    /\ ~Defined(r.function, Mid(r.p1, r.p2))

NoSignChange(r) ==
    /\ Valid(r)
    /\ Bracketing(r)
    /\ Defined(r.function, r.p1)
    /\ Defined(r.function, r.p2)
    /\ \/ SignProduct(r.function, r.p1, r.p2) >= 0
       \/ Ge(FMul(F(r.function, r.p1), F(r.function, r.p2)), Zero)

\* C7: in bisection and regula falsi, whenever f(a) * f(b) >= 0 for the
\* supplied endpoints (an endpoint that is an exact root included), the run
\* ends in the bracketing failure with a message, runs no iteration and
\* returns no root and no trace.
C7_NoSignChangeFails ==
    /\ (CliRunning /\ NoSignChange(cli.req)) =>
          /\ CliFailure
          /\ cli.message =
                IF cli.req.method = 1
                THEN "Bisection fails: f(a) and f(b) must have opposite signs."
                ELSE "Regula Falsi fails: f(a) and f(b) must have opposite signs."
          /\ cli.i = 0
          /\ cli.iterations = <<>>
          /\ cli.history = <<>>
    /\ (web.pc \in {"loop", "returned"} /\ NoSignChange(web.req)) =>
          /\ WebDone
          /\ web.root = None
          /\ web.message = "f(a) and f(b) must have opposite signs"
          /\ web.i = 0
          /\ web.history = <<>>
          /\ web.trace = <<>>

\* an endpoint is an exact root of f and the run was refused
C7_Witness ==
    /\ CliFailure
    /\ ValidParams(cli.req)
    /\ NoSignChange(cli.req)
    /\ F(cli.req.function, cli.req.p1) = Zero
    /\ F(cli.req.function, cli.req.p2) # Zero
    /\ cli.iterations = <<>>

\* ------------------------------------------------------------------------
\* C8
\* ------------------------------------------------------------------------
\* f(x1) - f(x0) = 0 for a pair at which f is defined
Singular(fn, x0, x1) ==
    /\ Defined(fn, x0)
    /\ Defined(fn, x1)
    /\ FSub(F(fn, x1), F(fn, x0)) = Zero

\* C8: in the secant method, when f(x1) - f(x0) = 0 at the start of
\* iteration i the run ends in the singular-update failure at iteration i
\* with no root and without a trace record for iteration i (no record of
\* the trace belongs to a singular pair); when f(x0) = f(x1) for the initial
\* pair, the failure comes on iteration 1 with an empty trace.
C8_SecantSingular ==
    /\ (CliRunning /\ cli.req.method = 3 /\ Valid(cli.req)) =>
          /\ \A k \in 1 .. Len(cli.iterations) :
                ~Singular(cli.req.function, cli.iterations[k].x_prev,
                          cli.iterations[k].x_curr)
          /\ (/\ CliDone
              /\ ~cli.raised
              /\ Len(cli.iterations) < cli.req.max_iter
              /\ Singular(cli.req.function, cli.x0, cli.x1)) =>
                /\ cli.result = None
                /\ cli.message = "Division by zero: f(x1) - f(x0) is zero."
                /\ cli.history = <<>>
                /\ Len(cli.iterations) = cli.i - 1
          /\ (/\ CliDone
              /\ cli.req.max_iter >= 1
              /\ Singular(cli.req.function, cli.req.p1, cli.req.p2)) =>
                /\ CliFailure
                /\ cli.message = "Division by zero: f(x1) - f(x0) is zero."
                /\ cli.i = 1
                /\ cli.iterations = <<>>
    /\ (web.pc \in {"loop", "returned"} /\ web.req.method = 3
        /\ Valid(web.req)) =>
          /\ (/\ WebDone
              /\ Len(web.history) < web.req.max_iter
              /\ Singular(web.req.function, web.x0, web.x1)) =>
                /\ web.root = None
                /\ web.message = "Division by zero"
                /\ web.trace = <<>>
                /\ Len(web.history) = web.i - 1
          /\ (/\ WebDone
              /\ web.req.max_iter >= 1
              /\ Singular(web.req.function, web.req.p1, web.req.p2)) =>
                /\ web.root = None
                /\ web.message = "Division by zero"
                /\ web.i = 1
                /\ web.history = <<>>

\* the secant method met a singular pair after at least one full iteration
C8_Witness ==
    /\ CliFailure
    /\ ValidParams(cli.req)
    /\ cli.req.method = 3
    /\ cli.i > 1
    /\ Singular(cli.req.function, cli.x0, cli.x1)
    /\ Len(cli.iterations) = cli.i - 1

\* ------------------------------------------------------------------------
\* C9
\* ------------------------------------------------------------------------
\* C9 (as stated): in bisection and regula falsi, for tol > 0 and an
\* accepted start, f(a) * f(b) < 0 holds at the start of every iteration, so
\* that regula falsi never divides by f(b) - f(a) = 0.
C9_SignChangeKept ==
    /\ (cli.pc = "loop" /\ Bracketing(cli.req) /\ ValidParams(cli.req)) =>
          /\ SignProduct(cli.req.function, cli.a, cli.b) < 0
          /\ cli.req.method = 2 => ~Singular(cli.req.function, cli.a, cli.b)
    /\ (web.pc = "loop" /\ Bracketing(web.req) /\ ValidParams(web.req)) =>
          /\ SignProduct(web.req.function, web.a, web.b) < 0
          /\ web.req.method = 2 => ~Singular(web.req.function, web.a, web.b)

\* ------------------------------------------------------------------------
\* C10
\* ------------------------------------------------------------------------
\* C10 (as stated): on the same request, run_method and the CLI function
\* end in the same outcome: both fail or both succeed with the same root and
\* the same iterations, and run_method's iters is the length of the CLI
\* trace.
C10_FrontEndsAgree ==
    (cli.pc = "printed" /\ WebDone /\ web.req = cli.req) =>
       /\ (cli.result = None) <=> (web.root = None)
       /\ cli.result # None =>
             /\ web.root = cli.result
             /\ web.iters = Len(cli.iterations)
             /\ Len(web.trace) = Len(cli.iterations)
             /\ \A k \in 1 .. Len(web.trace) :
                   /\ k <= Len(cli.iterations)
                   /\ web.trace[k].estimate = Estimate(cli.req, cli.iterations[k])
                   /\ web.trace[k].error = cli.iterations[k].error

====
